---- MODULE Spec2Model ----
(***************************************************************************)
(* A model of the t-digest of zeebo/go-tdigest: the Fenwick index (fen.go), *)
(* the centroid store (summary), the digest engine (tdigest.go) and the     *)
(* binary codec (serialization.go).                                         *)
(*                                                                          *)
(* Numbers.  A float64 mean is held as an exact fraction <<n, d>> in lowest *)
(* terms with d > 0, or as NaN == <<0, 0>>; every comparison with NaN is    *)
(* false and every arithmetic operation on NaN gives NaN, as in IEEE 754.   *)
(* Rounding of float64 arithmetic and the infinities are not modelled.      *)
(* A uint32 is held as an integer: the guards keep every weight far below   *)
(* 2^31, and the transient wrap-around inside fen.Range (a subtraction that *)
(* passes below zero) is a ring homomorphism, so sums and differences are   *)
(* the same numbers as in the code.                                         *)
(***************************************************************************)
EXTENDS Integers, Sequences, FiniteSets, TLC

\* ------------------------------------------------------------------ bounds

\* The largest total weight the environment builds by Add calls.
MaxTotal == 60
\* The number of API calls of one behaviour.
MaxOps == 4
\* The depth of nested Compress calls followed before the run is cut off.
MaxDepth == 3

\* ------------------------------------------------------- float64 arithmetic

NaN == <<0, 0>>

IsNaN(a) == a[2] = 0

Abs(x) == IF x < 0 THEN -x ELSE x

RECURSIVE GCD(_, _)
GCD(a, b) == IF b = 0 THEN a ELSE GCD(b, a % b)

\* The fraction n/d (d # 0) in lowest terms with a positive denominator.
Norm(n, d) ==
    LET g == GCD(Abs(n), Abs(d))
        s == IF d < 0 THEN -1 ELSE 1
    IN  <<(s * n) \div g, (s * d) \div g>>

R(n) == <<n, 1>>

RAdd(a, b) == IF IsNaN(a) \/ IsNaN(b) THEN NaN
              ELSE Norm(a[1] * b[2] + b[1] * a[2], a[2] * b[2])

RSub(a, b) == IF IsNaN(a) \/ IsNaN(b) THEN NaN
              ELSE Norm(a[1] * b[2] - b[1] * a[2], a[2] * b[2])

RMul(a, b) == IF IsNaN(a) \/ IsNaN(b) THEN NaN
              ELSE Norm(a[1] * b[1], a[2] * b[2])

\* a / b; the model never divides by zero (weights and compression are > 0).
RDiv(a, b) == IF IsNaN(a) \/ IsNaN(b) \/ b[1] = 0 THEN NaN
              ELSE Norm(a[1] * b[2], a[2] * b[1])

RLt(a, b) == ~IsNaN(a) /\ ~IsNaN(b) /\ a[1] * b[2] < b[1] * a[2]

RGt(a, b) == RLt(b, a)

RLe(a, b) == ~IsNaN(a) /\ ~IsNaN(b) /\ a[1] * b[2] <= b[1] * a[2]

\* Go's ==: false when either side is NaN.
REq(a, b) == ~IsNaN(a) /\ ~IsNaN(b) /\ a[1] * b[2] = b[1] * a[2]

RAbs(a) == IF IsNaN(a) THEN NaN ELSE <<Abs(a[1]), a[2]>>

RMin(a, b) == IF IsNaN(a) \/ IsNaN(b) THEN NaN ELSE IF RLt(b, a) THEN b ELSE a

\* uint32(x) of a non-negative float64: truncation toward zero.
Trunc(a) == a[1] \div a[2]

\* ------------------------------------------------------------ fen (fen.go)

RECURSIVE lsbLoop(_, _)
lsbLoop(i, p) == IF i % (2 * p) # 0 THEN p ELSE lsbLoop(i, 2 * p)

\* i & -i: the lowest set bit of i, 0 for i = 0.
lsb(i) == IF i = 0 THEN 0 ELSE lsbLoop(i, 1)

RECURSIVE Zeros(_)
Zeros(n) == IF n <= 0 THEN <<>> ELSE Append(Zeros(n - 1), 0)

\* buf is a TLA+ sequence: Go's buf[i] is buf[i + 1].
accomodate(buf, i) ==
    IF Len(buf) <= i THEN buf \o Zeros(i - Len(buf) + 1) ELSE buf

RECURSIVE fenAddLoop(_, _, _)
fenAddLoop(buf, i, delta) ==
    IF i < Len(buf)
    THEN fenAddLoop([buf EXCEPT ![i + 1] = @ + delta], i + lsb(i + 1), delta)
    ELSE buf

fenAdd(buf, i, delta) == fenAddLoop(accomodate(buf, i), i, delta)

RECURSIVE fenRangeUp(_, _, _, _)
fenRangeUp(buf, i, j, sum) ==
    IF j > i THEN fenRangeUp(buf, i, j - lsb(j), sum + buf[j]) ELSE <<j, sum>>

RECURSIVE fenRangeDown(_, _, _, _)
fenRangeDown(buf, i, j, sum) ==
    IF i > j THEN fenRangeDown(buf, i - lsb(i), j, sum - buf[i]) ELSE sum

\* The sum Range(i, j) returns, read from the buffer Range has grown.
fenRange(buf, i, j) ==
    LET b  == accomodate(buf, j - 1)
        up == fenRangeUp(b, i, j, 0)
    IN  fenRangeDown(b, i, up[1], up[2])

fenGet(buf, i) == fenRange(buf, i, i + 1)

\* Set grows the buffer in Range and again in Add, then adds the difference.
fenSet(buf, i, value) ==
    LET b     == accomodate(buf, i)
        delta == value - fenRange(buf, i, i + 1)
    IN  fenAdd(b, i, delta)

RECURSIVE fenSumLoop(_, _, _)
fenSumLoop(buf, i, sum) ==
    IF i > 0 THEN fenSumLoop(buf, i - lsb(i), sum + buf[i]) ELSE sum

\* The value Sum(i) returns; Sum also leaves the buffer grown to length >= i.
fenSum(buf, i) == fenSumLoop(accomodate(buf, i - 1), i, 0)

fenSumBuf(buf, i) == accomodate(buf, i - 1)

RECURSIVE SumSeq(_)
SumSeq(q) == IF q = <<>> THEN 0 ELSE Head(q) + SumSeq(Tail(q))

\* ------------------------------------------------ centroid, summary (store)

centroid(mean, count, index) == [mean |-> mean, count |-> count, index |-> index]

isValid(c) == ~IsNaN(c.mean) /\ c.count > 0

\* centroid.Update: count first, then the incremental weighted mean.
Update(c, x, weight) ==
    LET n == c.count + weight
    IN  [c EXCEPT !.count = n,
                  !.mean = RAdd(c.mean, RDiv(RMul(R(weight), RSub(x, c.mean)), R(n)))]

invalidCentroid == centroid(NaN, 0, 0)

newSummary(initialCapacity) ==
    [keys |-> <<>>, counts |-> <<>>, fen |-> Zeros(initialCapacity)]

\* summary.Len
SLen(s) == Len(s.keys)

RECURSIVE FindIndexLoop(_, _, _, _)
FindIndexLoop(keys, x, i, j) ==
    IF i < j
    THEN LET h == (i + j) \div 2
         IN  IF RLt(keys[h + 1], x)
             THEN FindIndexLoop(keys, x, h + 1, j)
             ELSE FindIndexLoop(keys, x, i, h)
    ELSE i

\* The binary search of the code, 0-based like the code's result.
FindIndex(s, x) == FindIndexLoop(s.keys, x, 0, Len(s.keys))

meanAtIndexIs(s, index, mean) == index < Len(s.keys) /\ REq(s.keys[index + 1], mean)

At(s, index) ==
    IF SLen(s) - 1 < index \/ index < 0 THEN invalidCentroid
    ELSE centroid(s.keys[index + 1], s.counts[index + 1], index)

Find(s, x) ==
    LET idx == FindIndex(s, x)
    IN  IF idx < SLen(s) /\ REq(s.keys[idx + 1], x)
        THEN centroid(x, s.counts[idx + 1], idx)
        ELSE invalidCentroid

Min(s) == At(s, 0)

Max(s) == At(s, SLen(s) - 1)

\* Iterate with a visitor that always continues: every centroid in store order.
RECURSIVE DataLoop(_, _)
DataLoop(s, n) ==
    IF n = 0 THEN <<>>
    ELSE Append(DataLoop(s, n - 1), centroid(s.keys[n], s.counts[n], n - 1))

Data(s) == DataLoop(s, SLen(s))

successorAndPredecessorItems(s, mean) ==
    LET idx == FindIndex(s, mean)
    IN  <<At(s, idx + 1), At(s, idx - 1)>>

ceilingAndFloorItems(s, mean) ==
    LET idx  == FindIndex(s, mean)
        item == At(s, idx)
    IN  IF idx = SLen(s) THEN <<invalidCentroid, Max(s)>>
        ELSE IF isValid(item) /\ REq(mean, item.mean) THEN <<item, item>>
        ELSE IF idx = 0 THEN <<Min(s), invalidCentroid>>
        ELSE <<item, At(s, idx - 1)>>

\* sumUntilMean: the sum, and the store with the buffer Sum may have grown.
sumUntilMean(s, mean) == fenSum(s.fen, FindIndex(s, mean))

sumUntilMeanStore(s, mean) ==
    [s EXCEPT !.fen = fenSumBuf(s.fen, FindIndex(s, mean))]

Swap(q, a, b) == [q EXCEPT ![a] = q[b], ![b] = q[a]]

\* The swap loop of adjustRight: <<keys, counts, amount>>.
RECURSIVE adjustRightLoop(_, _, _, _)
adjustRightLoop(keys, counts, i, amount) ==
    IF i < Len(keys) /\ RGt(keys[i], keys[i + 1])
    THEN adjustRightLoop(Swap(keys, i, i + 1), Swap(counts, i, i + 1), i + 1, amount + 1)
    ELSE <<keys, counts, amount>>

RECURSIVE adjustRightFen(_, _, _, _, _)
adjustRightFen(buf, counts, index, i, amount) ==
    IF i < amount
    THEN adjustRightFen(fenSet(buf, index + i + 1, counts[index + i + 2]),
                        counts, index, i + 1, amount)
    ELSE buf

adjustRight(s, index) ==
    LET r == adjustRightLoop(s.keys, s.counts, index + 1, 0)
    IN  [keys |-> r[1], counts |-> r[2],
         fen |-> adjustRightFen(s.fen, r[2], index, 0, r[3])]

\* The swap loop of adjustLeft: <<keys, counts, amount>>.
RECURSIVE adjustLeftLoop(_, _, _, _)
adjustLeftLoop(keys, counts, i, amount) ==
    IF i >= 0 /\ RGt(keys[i + 1], keys[i + 2])
    THEN adjustLeftLoop(Swap(keys, i + 1, i + 2), Swap(counts, i + 1, i + 2), i - 1, amount + 1)
    ELSE <<keys, counts, amount>>

RECURSIVE adjustLeftFen(_, _, _, _, _)
adjustLeftFen(buf, counts, index, i, amount) ==
    IF i < amount
    THEN adjustLeftFen(fenSet(buf, index - i - 1, counts[index - i]),
                       counts, index, i + 1, amount)
    ELSE buf

adjustLeft(s, index) ==
    LET r == adjustLeftLoop(s.keys, s.counts, index - 1, 0)
    IN  [keys |-> r[1], counts |-> r[2],
         fen |-> adjustLeftFen(s.fen, r[2], index, 0, r[3])]

updateAt(s, index, mean, count) ==
    LET old_key   == s.keys[index + 1]
        old_count == s.counts[index + 1]
        c         == Update(centroid(old_key, old_count, index), mean, count)
        s1        == [keys   |-> [s.keys EXCEPT ![index + 1] = c.mean],
                      counts |-> [s.counts EXCEPT ![index + 1] = c.count],
                      fen    |-> fenAdd(s.fen, index, c.count - old_count)]
    IN  IF RGt(c.mean, old_key) THEN adjustRight(s1, index)
        ELSE IF RLt(c.mean, old_key) THEN adjustLeft(s1, index)
        ELSE s1

InsertAt(q, idx, x) == SubSeq(q, 1, idx) \o <<x>> \o SubSeq(q, idx + 1, Len(q))

\* The loop of summary.Add that re-sets the index for the shifted positions.
RECURSIVE addFenLoop(_, _, _)
addFenLoop(buf, counts, i) ==
    IF i < Len(counts)
    THEN addFenLoop(fenSet(buf, i, counts[i + 1]), counts, i + 1)
    ELSE buf

\* summary.Add: [s |-> the store afterwards, err |-> an error was returned].
\* The shifted slot idx keeps its old content (copy) until it is overwritten.
summaryAdd(s, key, value) ==
    IF IsNaN(key) THEN [s |-> s, err |-> TRUE]
    ELSE IF value = 0 THEN [s |-> s, err |-> TRUE]
    ELSE LET idx == FindIndex(s, key)
         IN  IF meanAtIndexIs(s, idx, key)
             THEN [s |-> updateAt(s, idx, key, value), err |-> FALSE]
             ELSE LET shifted == InsertAt(s.counts, idx,
                                    IF idx < Len(s.counts) THEN s.counts[idx + 1] ELSE 0)
                      f1      == addFenLoop(s.fen, shifted, idx + 1)
                  IN  [s |-> [keys   |-> InsertAt(s.keys, idx, key),
                              counts |-> InsertAt(s.counts, idx, value),
                              fen    |-> fenSet(f1, idx, value)],
                       err |-> FALSE]

\* summary.Remove is called by addCentroid and is not among the sources; by
\* the store's contract (spec 3, 4.2) it takes the centroid with that key out
\* and leaves the index consistent with the remaining counts.
RemoveAt(q, idx) == SubSeq(q, 1, idx) \o SubSeq(q, idx + 2, Len(q))

Remove(s, key) ==
    LET idx == FindIndex(s, key)
    IN  IF idx = SLen(s) \/ ~REq(s.keys[idx + 1], key)
        THEN [s |-> s, removed |-> invalidCentroid]
        ELSE LET counts == RemoveAt(s.counts, idx)
             IN  [s |-> [keys   |-> RemoveAt(s.keys, idx),
                         counts |-> counts,
                         fen    |-> fenSet(addFenLoop(s.fen, counts, idx), Len(counts), 0)],
                  removed |-> centroid(s.keys[idx + 1], s.counts[idx + 1], idx)]

\* ------------------------------------------------- digest engine (tdigest.go)

estimateCapacity(compression) == Trunc(compression) * 10

New(compression) ==
    [summary     |-> newSummary(estimateCapacity(compression)),
     compression |-> compression,
     count       |-> 0]

threshold(t, q) ==
    RDiv(RMul(RMul(RMul(R(4), R(t.count)), q), RSub(R(1), q)), t.compression)

\* computeCentroidQuantile: the quantile; the Sum it calls may grow the index.
computeCentroidQuantile(t, c) ==
    RDiv(RAdd(RDiv(R(c.count), R(2)), R(sumUntilMean(t.summary, c.mean))), R(t.count))

computeCentroidQuantileStore(t, c) ==
    [t EXCEPT !.summary = sumUntilMeanStore(t.summary, c.mean)]

\* updateCentroid: [t, panic].
updateCentroid(t, c, mean, count) ==
    LET idx == FindIndex(t.summary, c.mean)
    IN  IF ~meanAtIndexIs(t.summary, idx, c.mean)
        THEN [t |-> t, panic |-> TRUE]
        ELSE [t |-> [t EXCEPT !.summary = updateAt(t.summary, idx, mean, count)],
              panic |-> FALSE]

\* addCentroid drops the error summary.Add returns.
addCentroid(t, mean, count) ==
    LET current == Find(t.summary, mean)
    IN  IF isValid(current)
        THEN LET r       == Remove(t.summary, current.mean)
                 removed == Update(r.removed, mean, count)
             IN  [t EXCEPT !.summary = summaryAdd(r.s, removed.mean, removed.count).s]
        ELSE [t EXCEPT !.summary = summaryAdd(t.summary, mean, count).s]

\* findNearestCentroids: [list, panic]; the candidates are copies.
findNearestCentroids(t, mean) ==
    LET cf    == ceilingAndFloorItems(t.summary, mean)
        ceil  == cf[1]
        floor == cf[2]
        df    == RAbs(RSub(floor.mean, mean))
        dc    == RAbs(RSub(ceil.mean, mean))
    IN  IF ~isValid(ceil) /\ ~isValid(floor) THEN [list |-> <<>>, panic |-> TRUE]
        ELSE IF ~isValid(ceil) THEN [list |-> <<floor>>, panic |-> FALSE]
        ELSE IF ~isValid(floor) THEN [list |-> <<ceil>>, panic |-> FALSE]
        ELSE IF RLt(df, dc) THEN [list |-> <<floor>>, panic |-> FALSE]
        ELSE IF REq(df, dc) /\ ~REq(floor.mean, ceil.mean)
             THEN [list |-> <<floor, ceil>>, panic |-> FALSE]
        ELSE [list |-> <<ceil>>, panic |-> FALSE]

\* The outcome of a call: the digest, the error returned, and how it ended:
\* "ok" (returned), "panic", or "deep" (more than MaxDepth nested Compress calls).
Ok(t) == [t |-> t, err |-> FALSE, st |-> "ok"]

Panic(t) == [t |-> t, err |-> FALSE, st |-> "panic"]

Deep(t) == [t |-> t, err |-> FALSE, st |-> "deep"]

\* The candidate loop of Add (lines 100-116) for every outcome of rand.Intn:
\* the set of [t, count, panic] it can end in.
RECURSIVE addLoop(_, _, _, _)
addLoop(t, value, count, candidates) ==
    IF Len(candidates) > 0 /\ count > 0
    THEN UNION {
           LET chosen   == candidates[j]
               quantile == computeCentroidQuantile(t, chosen)
               t1       == computeCentroidQuantileStore(t, chosen)
               rest     == RemoveAt(candidates, j - 1)
           IN  IF RGt(R(chosen.count + count), threshold(t1, quantile))
               THEN addLoop(t1, value, count, rest)
               ELSE LET deltaW == Trunc(RMin(RSub(threshold(t1, quantile), R(chosen.count)),
                                             R(count)))
                        u      == updateCentroid(t1, chosen, value, deltaW)
                    IN  IF u.panic THEN {[t |-> u.t, count |-> count, panic |-> TRUE]}
                        ELSE addLoop(u.t, value, count - deltaW, rest)
           : j \in 1..Len(candidates) }
    ELSE {[t |-> t, count |-> count, panic |-> FALSE]}

\* shuffle for every outcome of rand.Intn: the loop runs i = len-1 down to 2.
RECURSIVE shuffleLoop(_, _)
shuffleLoop(data, i) ==
    IF i > 1
    THEN UNION { shuffleLoop(Swap(data, other + 1, i + 1), i - 1) : other \in 0..i }
    ELSE {data}

shuffle(data) == shuffleLoop(data, Len(data) - 1)

\* TDigest.Add from "t.count += count" up to the automatic compression (lines
\* 91-120): the set of [t, panic, early]; early is the return of line 95.
addFold(t, value, count) ==
    LET t1 == [t EXCEPT !.count = @ + count]
    IN  IF SLen(t1.summary) = 0
        THEN {[t |-> addCentroid(t1, value, count), panic |-> FALSE, early |-> TRUE]}
        ELSE LET nc == findNearestCentroids(t1, value)
             IN  IF nc.panic THEN {[t |-> t1, panic |-> TRUE, early |-> FALSE]}
                 ELSE { IF r.panic THEN [t |-> r.t, panic |-> TRUE, early |-> FALSE]
                        ELSE [t     |-> IF r.count > 0
                                        THEN addCentroid(r.t, value, r.count)
                                        ELSE r.t,
                              panic |-> FALSE,
                              early |-> FALSE]
                        : r \in addLoop(t1, value, count, nc.list) }

RECURSIVE Add(_, _, _, _)
RECURSIVE addBody(_, _, _, _)
RECURSIVE Compress(_, _)
RECURSIVE replay(_, _, _)

\* TDigest.Add from "t.count += count" on (lines 91-126).
addBody(t, value, count, fuel) ==
    UNION { IF r.panic THEN {Panic(r.t)}
            ELSE IF r.early THEN {Ok(r.t)}
            ELSE IF RGt(R(SLen(r.t.summary)), RMul(R(20), r.t.compression))
                 THEN Compress(r.t, fuel)
                 ELSE {Ok(r.t)}
            : r \in addFold(t, value, count) }

\* Add without its "count == 0" check.
AddNoZeroCheck(t, value, count, fuel) == addBody(t, value, count, fuel)

\* TDigest.Add(value, count): the set of outcomes.  fuel is the number of
\* nested Compress calls still followed.
Add(t, value, count, fuel) ==
    IF count = 0 THEN {[t |-> t, err |-> TRUE, st |-> "ok"]}
    ELSE addBody(t, value, count, fuel)

\* The loop "for _, item := range nodes { t.Add(item.mean, item.count) }" of
\* Compress and Merge; the error Add returns is dropped.
replay(t, nodes, fuel) ==
    IF nodes = <<>> THEN {Ok(t)}
    ELSE UNION { IF o.st = "ok" THEN replay(o.t, Tail(nodes), fuel) ELSE {o}
                 : o \in Add(t, Head(nodes).mean, Head(nodes).count, fuel) }

\* TDigest.Compress
Compress(t, fuel) ==
    IF SLen(t.summary) <= 1 THEN {Ok(t)}
    ELSE IF fuel = 0 THEN {Deep(t)}
    ELSE LET oldTree == t.summary
             t0      == [t EXCEPT !.summary = newSummary(estimateCapacity(t.compression))]
         IN  UNION { replay(t0, nodes, fuel - 1) : nodes \in shuffle(Data(oldTree)) }

\* TDigest.Merge
Merge(t, other, fuel) ==
    IF SLen(other.summary) = 0 THEN {Ok(t)}
    ELSE UNION { replay(t, nodes, fuel) : nodes \in shuffle(Data(other.summary)) }

\* The scan of Quantile from centroid i on, q already scaled by t.count.
RECURSIVE quantileLoop(_, _, _, _)
quantileLoop(t, q, total, i) ==
    IF i >= SLen(t.summary) THEN Max(t.summary).mean
    ELSE LET item == centroid(t.summary.keys[i + 1], t.summary.counts[i + 1], i)
             k    == R(item.count)
         IN  IF RLt(q, RAdd(total, k))
             THEN IF i = 0 \/ i + 1 = SLen(t.summary) THEN item.mean
                  ELSE LET sp    == successorAndPredecessorItems(t.summary, item.mean)
                           delta == RDiv(RSub(sp[1].mean, sp[2].mean), R(2))
                       IN  RAdd(item.mean,
                                RMul(RSub(RDiv(RSub(q, total), k), <<1, 2>>), delta))
             ELSE quantileLoop(t, q, RAdd(total, k), i + 1)

\* TDigest.Quantile for 0 <= q <= 1 (outside that range the code panics).
Quantile(t, q) ==
    IF SLen(t.summary) = 0 THEN NaN
    ELSE IF SLen(t.summary) = 1 THEN Min(t.summary).mean
    ELSE quantileLoop(t, RMul(q, R(t.count)), R(0), 0)

\* ------------------------------------------------- codec (serialization.go)

\* The mantissa width of the reduced-precision float the means are written
\* in.  float32 has 24 bits; the model keeps the conversion (round to nearest,
\* ties to even, to that many significant bits) at a narrower width, so that
\* the cross-multiplications of the exact fractions stay small.
MantBits == 6

smallEncoding == 2

RECURSIVE Pow2(_)
Pow2(n) == IF n <= 0 THEN 1 ELSE 2 * Pow2(n - 1)

\* 2^k as a fraction, k of either sign.
RPow2(k) == IF k >= 0 THEN <<Pow2(k), 1>> ELSE <<1, Pow2(-k)>>

\* The k with 2^k <= a < 2^(k+1), for a > 0.
RECURSIVE FloorLog2(_, _)
FloorLog2(a, k) ==
    IF RLe(R(2), a) THEN FloorLog2(RDiv(a, R(2)), k + 1)
    ELSE IF RLt(a, R(1)) THEN FloorLog2(RMul(a, R(2)), k - 1)
    ELSE k

\* a >= 0 rounded to the nearest integer, ties to even.
RoundHalfEven(a) ==
    LET q   == a[1] \div a[2]
        rem == 2 * (a[1] - q * a[2])
    IN  IF rem > a[2] THEN q + 1
        ELSE IF rem < a[2] THEN q
        ELSE IF q % 2 = 0 THEN q ELSE q + 1

\* float32(x): [nan, zero, neg, m, k], the value being +-m * 2^(k - MantBits + 1)
\* with 2^(MantBits-1) <= m < 2^MantBits.
float32(x) ==
    IF IsNaN(x) THEN [nan |-> TRUE, zero |-> FALSE, neg |-> FALSE, m |-> 0, k |-> 0]
    ELSE IF x[1] = 0 THEN [nan |-> FALSE, zero |-> TRUE, neg |-> FALSE, m |-> 0, k |-> 0]
    ELSE LET a == RAbs(x)
             k == FloorLog2(a, 0)
             m == RoundHalfEven(RMul(a, RPow2(MantBits - 1 - k)))
         IN  IF m = Pow2(MantBits)
             THEN [nan |-> FALSE, zero |-> FALSE, neg |-> x[1] < 0,
                   m |-> Pow2(MantBits - 1), k |-> k + 1]
             ELSE [nan |-> FALSE, zero |-> FALSE, neg |-> x[1] < 0, m |-> m, k |-> k]

\* binary.BigEndian.PutUint32 for 0 <= n < 2^31.
PutUint32(n) ==
    <<n \div 16777216, (n \div 65536) % 256, (n \div 256) % 256, n % 256>>

\* math.Float32bits, big-endian: sign, 8 bits of exponent (bias 127), 23 bits
\* of fraction.
Float32bits(f) ==
    IF f.nan THEN <<127, 192, 0, 0>>
    ELSE IF f.zero THEN <<0, 0, 0, 0>>
    ELSE LET exp  == f.k + 127
             frac == (f.m - Pow2(MantBits - 1)) * Pow2(24 - MantBits)
         IN  <<(IF f.neg THEN 128 ELSE 0) + exp \div 2,
               (exp % 2) * 128 + frac \div 65536,
               (frac \div 256) % 256,
               frac % 256>>

\* float64(math.Float32frombits(...)) of four bytes written by Float32bits:
\* (2^23 + frac) * 2^(exp - 150), the mantissa stripped of its trailing zeros
\* first.  Subnormals and infinities are not written by the model.
Float32frombits(b) ==
    LET exp  == (b[1] % 128) * 2 + b[2] \div 128
        frac == (b[2] % 128) * 65536 + b[3] * 256 + b[4]
        neg  == b[1] >= 128
        man  == 8388608 + frac
        low  == lsb(man)
        m    == man \div low
        e    == exp - 150 + FloorLog2(R(low), 0)
    IN  IF exp = 255 THEN NaN
        ELSE IF exp = 0 /\ frac = 0 THEN R(0)
        ELSE RMul(R(IF neg THEN -m ELSE m), RPow2(e))

\* math.Float64bits of the compression parameters of the model, big-endian.
Float64bits(c) ==
    CASE c = <<1, 10>> -> <<63, 185, 153, 153, 153, 153, 153, 154>>
      [] c = <<1, 1>>  -> <<63, 240, 0, 0, 0, 0, 0, 0>>
      [] c = <<2, 1>>  -> <<64, 0, 0, 0, 0, 0, 0, 0>>

\* math.Float64frombits of those eight bytes.
Float64frombits(b) ==
    CASE b = <<63, 185, 153, 153, 153, 153, 153, 154>> -> <<1, 10>>
      [] b = <<63, 240, 0, 0, 0, 0, 0, 0>>             -> <<1, 1>>
      [] b = <<64, 0, 0, 0, 0, 0, 0, 0>>               -> <<2, 1>>

\* binary.PutUvarint
RECURSIVE PutUvarint(_)
PutUvarint(x) ==
    IF x >= 128 THEN <<(x % 128) + 128>> \o PutUvarint(x \div 128) ELSE <<x>>

encodeUint32(buf, n) == buf \o PutUvarint(n)

\* summary.ForEach is not among the sources; by the programmatic surface of
\* the spec (6) it visits the (mean, count) pairs in ascending-mean order.
RECURSIVE ForEachLoop(_, _)
ForEachLoop(s, n) ==
    IF n = 0 THEN <<>> ELSE Append(ForEachLoop(s, n - 1), <<s.keys[n], s.counts[n]>>)

ForEach(s) == ForEachLoop(s, SLen(s))

\* The first ForEach of Marshal: each mean as the float32 of its delta.
RECURSIVE marshalMeans(_, _, _)
marshalMeans(buf, items, x) ==
    IF items = <<>> THEN buf
    ELSE LET mean  == Head(items)[1]
             delta == RSub(mean, x)
         IN  marshalMeans(buf \o Float32bits(float32(delta)), Tail(items), mean)

\* The second ForEach of Marshal: each count as a varint.
RECURSIVE marshalCounts(_, _)
marshalCounts(buf, items) ==
    IF items = <<>> THEN buf
    ELSE marshalCounts(encodeUint32(buf, Head(items)[2]), Tail(items))

\* TDigest.Marshal(nil)
Marshal(t) ==
    LET b1 == PutUint32(smallEncoding)
        b2 == b1 \o Float64bits(t.compression)
        b3 == b2 \o PutUint32(SLen(t.summary))
        b4 == marshalMeans(b3, ForEach(t.summary), R(0))
    IN  marshalCounts(b4, ForEach(t.summary))

\* int32(binary.BigEndian.Uint32(b)) of the first four bytes.
Int32BE(b) ==
    (IF b[1] >= 128 THEN b[1] - 256 ELSE b[1]) * 16777216
        + b[2] * 65536 + b[3] * 256 + b[4]

Drop(buf, n) == SubSeq(buf, n + 1, Len(buf))

\* binary.Uvarint (package encoding/binary): [big, v, n].  big says the value
\* is above 0xffffffff; v is the value when it is not (the buffers of the
\* model hold no value from 2^31 to 2^32 - 1); n is the number of bytes read,
\* 0 when the buffer ends inside the number, -(i+1) on 64-bit overflow.
\* c << s for a chunk of a number that is not big.
Shifted(c, s) == IF c = 0 THEN 0 ELSE c * Pow2(s)

RECURSIVE UvarintLoop(_, _, _, _, _)
UvarintLoop(buf, i, x, big, s) ==
    IF i >= Len(buf) THEN [big |-> FALSE, v |-> 0, n |-> 0]
    ELSE LET b == buf[i + 1]
         IN  IF i = 10 THEN [big |-> FALSE, v |-> 0, n |-> -(i + 1)]
             ELSE IF b < 128
             THEN IF i = 9 /\ b > 1 THEN [big |-> FALSE, v |-> 0, n |-> -(i + 1)]
                  ELSE LET isBig == big \/ (b > 0 /\ s >= 35) \/ (b >= 16 /\ s = 28)
                       IN  [big |-> isBig,
                            v   |-> IF isBig THEN 0 ELSE x + Shifted(b, s),
                            n   |-> i + 1]
             ELSE LET c     == b % 128
                      isBig == big \/ (c > 0 /\ s >= 35) \/ (c >= 16 /\ s = 28)
                  IN  UvarintLoop(buf, i + 1, IF isBig THEN 0 ELSE x + Shifted(c, s),
                                  isBig, s + 7)

Uvarint(buf) == UvarintLoop(buf, 0, 0, FALSE, 0)

\* decodeUint32: [st, v, buf, err]; buf[n:] with a negative n panics.
decodeUint32(buf) ==
    LET u == Uvarint(buf)
    IN  IF u.big THEN [st |-> "ok", v |-> 0, buf |-> <<>>, err |-> TRUE]
        ELSE IF u.n < 0 THEN [st |-> "panic", v |-> 0, buf |-> buf, err |-> FALSE]
        ELSE [st |-> "ok", v |-> u.v, buf |-> Drop(buf, u.n), err |-> FALSE]

\* TDigest.AddWeighted is not among the sources; by the spec (4.3, 6) it is
\* the insertion of a weighted sample, which tdigest.go implements as Add.
AddWeighted(t, value, count, fuel) == Add(t, value, count, fuel)

\* The result of FromBytes: the digest returned (Nil for nil), the error, and
\* "panic" when the call does not return.
Nil == [nil |-> TRUE]

Decoded(t) == [st |-> "ok", t |-> t, err |-> FALSE]

DecodeError == [st |-> "ok", t |-> Nil, err |-> TRUE]

DecodePanic == [st |-> "panic", t |-> Nil, err |-> FALSE]

\* The first loop of FromBytes: [st, means, buf].
RECURSIVE decodeMeans(_, _, _, _)
decodeMeans(buf, n, x, means) ==
    IF n = 0 THEN [st |-> "ok", means |-> means, buf |-> buf]
    ELSE IF Len(buf) < 4 THEN [st |-> "panic", means |-> means, buf |-> buf]
    ELSE LET delta == Float32frombits(SubSeq(buf, 1, 4))
             x1    == RAdd(x, delta)
         IN  decodeMeans(Drop(buf, 4), n - 1, x1, Append(means, x1))

\* The second loop of FromBytes, for every outcome of the insertions.
RECURSIVE decodeCounts(_, _, _)
decodeCounts(t, buf, means) ==
    IF means = <<>> THEN {Decoded(t)}
    ELSE LET d == decodeUint32(buf)
         IN  IF d.st = "panic" THEN {DecodePanic}
             ELSE IF d.err THEN {DecodeError}
             ELSE UNION {
                    IF o.st # "ok" THEN {[st |-> o.st, t |-> Nil, err |-> FALSE]}
                    ELSE IF o.err THEN {DecodeError}
                    ELSE decodeCounts(o.t, d.buf, Tail(means))
                    : o \in AddWeighted(t, Head(means), d.v, MaxDepth) }

\* FromBytes: the set of results.  binary.BigEndian.Uint32 and Uint64 panic
\* on a slice shorter than 4 and 8 bytes.
FromBytes(buf) ==
    IF Len(buf) < 4 THEN {DecodePanic}
    ELSE IF Int32BE(buf) # smallEncoding THEN {DecodeError}
    ELSE LET buf1 == Drop(buf, 4)
         IN  IF Len(buf1) < 8 THEN {DecodePanic}
             ELSE LET compression == Float64frombits(SubSeq(buf1, 1, 8))
                      buf2        == Drop(buf1, 8)
                      t           == New(compression)
                  IN  IF Len(buf2) < 4 THEN {DecodePanic}
                      ELSE LET numCentroids == Int32BE(buf2)
                               buf3         == Drop(buf2, 4)
                           IN  IF numCentroids < 0 \/ numCentroids > 4194304
                               THEN {DecodeError}
                               ELSE IF Len(buf3) < 4 * numCentroids
                               THEN {DecodePanic}   \* the first loop runs out of bytes
                               ELSE LET m == decodeMeans(buf3, numCentroids, R(0), <<>>)
                                    IN  IF m.st = "panic" THEN {DecodePanic}
                                        ELSE decodeCounts(t, m.buf, m.means)

\* ------------------------------------------------------------ state machine

\* The largest position of a call on the Fenwick index driven on its own.
MaxPos == 3

\* The compression parameters tried: 1/10 (automatic compression above two
\* centroids, initial capacity 0), 1 and 2 (capacity 10 and 20).
Compressions == {<<1, 10>>, <<1, 1>>, <<2, 1>>}

\* The <<value, weight>> pairs of the Add calls to t: unit samples, among them
\* an equidistant one (1 between 0 and 2) and uneven gaps (0, 1, 5), and
\* weights of 19, which a centroid of weight 1 at the low end refuses at
\* compression 1/10 (threshold 20 - 10/count).
Samples == {<<R(0), 1>>, <<R(1), 1>>, <<R(2), 1>>, <<R(5), 1>>, <<R(1), 19>>, <<R(5), 19>>}

\* The pairs of the Add calls to other.
OtherSamples == {<<R(2), 1>>, <<R(1), 19>>}

\* The values of the Add calls of weight 0.
ZeroValues == {R(0), R(5)}

VARIABLES
    t,       \* the digest under test
    other,   \* a second digest, built by Add calls, the argument of Merge
    st,      \* how the last call ended: "ok", "panic" or "deep"
    last,    \* the last call to t: its name, arguments (ocount: the total weight
             \* of the digest merged in), the digest before, the error
    hist,    \* the least and greatest number added to t, and whether t was
             \* built by Add calls alone
    ops,     \* the number of calls made
    buf,     \* the bytes handed to FromBytes, and whether they were edited
    dec,     \* the result of the last FromBytes call
    s,       \* a centroid store driven on its own
    f,       \* a Fenwick index (fen.buf) driven on its own
    added    \* added[p + 1]: the total of the deltas added to f at position p

vars == <<t, other, st, last, hist, ops, buf, dec, s, f, added>>

NoDecode == [st |-> "none", t |-> Nil, err |-> FALSE]

NoCall ==
    [op |-> "none", value |-> NaN, count |-> 0, pre |-> New(R(1)), adds |-> TRUE,
     ocount |-> 0, err |-> FALSE]

Init ==
    /\ \E c \in Compressions : t = New(c) /\ other = New(c)
    /\ st = "ok"
    /\ last = NoCall
    /\ hist = [lo |-> NaN, hi |-> NaN, adds |-> TRUE]
    /\ ops = 0
    /\ buf = [bytes |-> <<>>, edited |-> FALSE]
    /\ dec = NoDecode
    /\ s = newSummary(0)
    /\ f = <<>>
    /\ added = Zeros(MaxPos + 1)

Running == st = "ok" /\ ops < MaxOps

Sees(h, value) ==
    [h EXCEPT !.lo = IF IsNaN(h.lo) \/ RLt(value, h.lo) THEN value ELSE h.lo,
              !.hi = IF IsNaN(h.hi) \/ RGt(value, h.hi) THEN value ELSE h.hi]

\* t.Add(value, count)
AddOf(value, count) ==
    /\ Running
    /\ t.count + count <= MaxTotal
    /\ \E o \in Add(t, value, count, MaxDepth) :
          /\ t' = o.t
          /\ st' = o.st
          /\ last' = [op |-> "Add", value |-> value, count |-> count, pre |-> t,
                      adds |-> hist.adds, ocount |-> 0, err |-> o.err]
    /\ hist' = IF count > 0 /\ ~IsNaN(value) THEN Sees(hist, value) ELSE hist
    /\ ops' = ops + 1
    /\ UNCHANGED <<other, buf, dec, s, f, added>>

AddCall == \E sample \in Samples : AddOf(sample[1], sample[2])

\* t.Add(value, 0)
AddZeroCall == \E value \in ZeroValues : AddOf(value, 0)

\* other.Add(value, count)
AddOtherCall ==
    /\ Running
    /\ \E sample \in OtherSamples :
          /\ other.count + sample[2] <= MaxTotal
          /\ \E o \in Add(other, sample[1], sample[2], MaxDepth) :
                /\ o.st = "ok"
                /\ other' = o.t
    /\ ops' = ops + 1
    /\ UNCHANGED <<t, st, last, hist, buf, dec, s, f, added>>

\* t.Compress()
CompressCall ==
    /\ Running
    /\ \E o \in Compress(t, MaxDepth) :
          /\ t' = o.t
          /\ st' = o.st
          /\ last' = [op |-> "Compress", value |-> NaN, count |-> 0, pre |-> t,
                      adds |-> hist.adds, ocount |-> 0, err |-> o.err]
    /\ hist' = [hist EXCEPT !.adds = FALSE]
    /\ ops' = ops + 1
    /\ UNCHANGED <<other, buf, dec, s, f, added>>

\* t.Merge(other)
MergeCall ==
    /\ Running
    /\ t.count + other.count <= MaxTotal
    /\ \E o \in Merge(t, other, MaxDepth) :
          /\ t' = o.t
          /\ st' = o.st
          /\ last' = [op |-> "Merge", value |-> NaN, count |-> 0, pre |-> t,
                      adds |-> hist.adds, ocount |-> other.count, err |-> o.err]
    /\ hist' = [hist EXCEPT !.adds = FALSE]
    /\ ops' = ops + 1
    /\ UNCHANGED <<other, buf, dec, s, f, added>>

Next == AddCall \/ AddZeroCall \/ AddOtherCall \/ CompressCall \/ MergeCall

Spec == Init /\ [][Next]_vars

\* The same calls, and Add calls whose value is NaN.
AddNaNCall == \E count \in {0, 1} : AddOf(NaN, count)

NextNaN == Next \/ AddNaNCall

SpecNaN == Init /\ [][NextNaN]_vars

\* ------------------------------------------------ the codec driven by bytes

\* d.Marshal(nil) of the digest built so far.
MarshalCall ==
    /\ Running
    /\ buf' = [bytes |-> Marshal(t), edited |-> FALSE]
    /\ ops' = ops + 1
    /\ UNCHANGED <<t, other, st, last, hist, dec, s, f, added>>

Edit(bytes) ==
    /\ st = "ok"
    /\ ~buf.edited
    /\ buf' = [bytes |-> bytes, edited |-> TRUE]
    /\ UNCHANGED <<t, other, st, last, hist, ops, dec, s, f, added>>

\* The buffer cut short at any point.
TruncateCall ==
    \E n \in 0..(Len(buf.bytes) - 1) : Edit(SubSeq(buf.bytes, 1, n))

\* Another format version.
VersionCall ==
    /\ Len(buf.bytes) >= 4
    /\ \E v \in {1, 3} : Edit(PutUint32(v) \o Drop(buf.bytes, 4))

\* A centroid count of -1, 2^22 and 2^22 + 1.
CountFields == {<<255, 255, 255, 255>>, <<0, 64, 0, 0>>, <<0, 64, 0, 1>>}

CountCall ==
    /\ Len(buf.bytes) >= 16
    /\ \E c \in CountFields :
          Edit(SubSeq(buf.bytes, 1, 12) \o c \o Drop(buf.bytes, 16))

\* Weights in place of the first one: 0, a number cut short, 2^33 - 1 (above
\* 32 bits), and ten bytes that overflow 64 bits.
WeightFields ==
    {<<0>>, <<128>>, <<255, 255, 255, 255, 31>>,
     <<255, 255, 255, 255, 255, 255, 255, 255, 255, 127>>}

WeightCall ==
    /\ SLen(t.summary) > 0
    /\ buf.bytes = Marshal(t)
    /\ \E w \in WeightFields :
          Edit(SubSeq(buf.bytes, 1, 16 + 4 * SLen(t.summary)) \o w)

\* FromBytes(buf)
FromBytesCall ==
    /\ Running
    /\ \E r \in FromBytes(buf.bytes) : dec' = r
    /\ ops' = ops + 1
    /\ UNCHANGED <<t, other, st, last, hist, buf, s, f, added>>

\* The digests that are encoded are built from these samples.
DecodeSamples == {<<R(0), 1>>, <<R(5), 19>>, <<R(1), 19>>}

AddDecodeCall ==
    \E sample \in DecodeSamples : AddOf(sample[1], sample[2])

NextDecode ==
    \/ AddDecodeCall
    \/ CompressCall
    \/ MarshalCall
    \/ TruncateCall
    \/ VersionCall
    \/ CountCall
    \/ WeightCall
    \/ FromBytesCall

SpecDecode == Init /\ [][NextDecode]_vars

\* -------------------------------------------------- the store driven alone

\* The largest total weight put into the store.
MaxStoreWeight == 5

StoreKeys == {R(0), R(1), R(2), R(5), <<1, 2>>}

StoreCounts == {1, 2}

StoreRunning == SumSeq(s.counts) < MaxStoreWeight

\* s.Add(key, value)
StoreAddCall ==
    /\ StoreRunning
    /\ \E key \in StoreKeys, value \in StoreCounts : s' = summaryAdd(s, key, value).s
    /\ UNCHANGED <<t, other, st, last, hist, ops, buf, dec, f, added>>

\* s.updateAt(index, mean, count)
StoreUpdateAtCall ==
    /\ StoreRunning
    /\ \E index \in 0..(SLen(s) - 1), mean \in StoreKeys, count \in StoreCounts :
          s' = updateAt(s, index, mean, count)
    /\ UNCHANGED <<t, other, st, last, hist, ops, buf, dec, f, added>>

NextStore == StoreAddCall \/ StoreUpdateAtCall

SpecStore == Init /\ [][NextStore]_vars

\* -------------------------------------------------- the index driven alone

FenDeltas == {1, 2}

FenRunning == SumSeq(added) < MaxStoreWeight

\* f.Add(i, delta)
FenAddCall ==
    /\ FenRunning
    /\ \E i \in 0..MaxPos, delta \in FenDeltas :
          /\ f' = fenAdd(f, i, delta)
          /\ added' = [added EXCEPT ![i + 1] = @ + delta]
    /\ UNCHANGED <<t, other, st, last, hist, ops, buf, dec, s>>

\* f.Sum(i): the call grows the buffer to length i.
FenSumCall ==
    /\ \E i \in 0..(MaxPos + 1) : f' = fenSumBuf(f, i)
    /\ UNCHANGED <<t, other, st, last, hist, ops, buf, dec, s, added>>

\* f.Get(i): Range(i, i + 1) grows the buffer to length i + 1.
FenGetCall ==
    /\ \E i \in 0..MaxPos : f' = accomodate(f, i)
    /\ UNCHANGED <<t, other, st, last, hist, ops, buf, dec, s, added>>

NextFen == FenAddCall \/ FenSumCall \/ FenGetCall

SpecFen == Init /\ [][NextFen]_vars

\* ------------------------------------------------------------------ claims

Quantiles == {<<0, 1>>, <<1, 4>>, <<1, 3>>, <<1, 2>>, <<3, 4>>, <<1, 1>>}

\* C1: Compress() on a digest built by Add calls leaves the total weight
\* (count) as it was, whatever order the shuffle picks.
C1_CompressKeepsCount ==
    (last.op = "Compress" /\ last.adds /\ st = "ok") => t.count = last.pre.count

\* C2: after t.Merge(other), for two digests built by Add calls, t's total
\* weight is its weight before the call plus other's total weight.
C2_MergeAdditive ==
    (last.op = "Merge" /\ last.adds /\ st = "ok")
        => t.count = last.pre.count + last.ocount

\* C3: in every state reached by Add, Compress and Merge calls the total
\* weight equals the sum of the centroid weights of the store, which equals
\* the index's prefix sum at the store length.
C3_CountIsSum ==
    st = "ok" =>
        /\ t.count = SumSeq(t.summary.counts)
        /\ SumSeq(t.summary.counts) = fenSum(t.summary.fen, SLen(t.summary))

\* C4: for a non-empty digest built by Add calls and q in [0, 1], Quantile(q)
\* is at least the smallest and at most the largest value ever added.
C4_QuantileWithinBounds ==
    (hist.adds /\ st = "ok" /\ SLen(t.summary) > 0) =>
        \A q \in Quantiles :
            RLe(hist.lo, Quantile(t, q)) /\ RLe(Quantile(t, q), hist.hi)

\* C5: Add(NaN, w) with w > 0 returns an error, leaves the total weight and
\* the store as they were, and no centroid has a NaN mean.
C5_NaNRejected ==
    (last.op = "Add" /\ IsNaN(last.value) /\ last.count > 0) =>
        /\ st = "ok"
        /\ last.err
        /\ t.count = last.pre.count
        /\ t.summary.keys = last.pre.summary.keys
        /\ t.summary.counts = last.pre.summary.counts
        /\ \A i \in 1..SLen(t.summary) : ~IsNaN(t.summary.keys[i])

\* C6: Add(value, 0) returns an error and leaves the digest exactly as it
\* was, for any digest state and any value.
C6_ZeroWeightRejected ==
    (last.op = "Add" /\ last.count = 0) => (st = "ok" /\ last.err /\ t = last.pre)

C6_Witness ==
    /\ last.op = "Add" /\ last.count = 0 /\ last.err
    /\ SLen(t.summary) >= 2
    /\ t = last.pre

\* C9: in every state reached by Add, Compress and Merge calls the keys are
\* strictly ascending, keys and counts have the same length, and every count
\* is positive.
C9_KeysAscending ==
    st = "ok" =>
        /\ Len(t.summary.keys) = Len(t.summary.counts)
        /\ \A i \in 1..SLen(t.summary) : t.summary.counts[i] > 0
        /\ \A i \in 1..(SLen(t.summary) - 1) :
              RLt(t.summary.keys[i], t.summary.keys[i + 1])

\* C7: for a digest d reached by Add, Compress and Merge calls,
\* FromBytes(d.Marshal(nil)) succeeds and gives a digest with d's compression
\* parameter and d's total weight.
C7_RoundTrip ==
    st = "ok" =>
        \A r \in FromBytes(Marshal(t)) :
            /\ r.st = "ok"
            /\ ~r.err
            /\ r.t # Nil
            /\ r.t.compression = t.compression
            /\ r.t.count = t.count

\* C8: for every byte sequence FromBytes returns a digest and no error, or an
\* error and no digest: never a crash, never both or neither.
C8_DecodeFailClosed ==
    dec # NoDecode => (dec.st = "ok" /\ (dec.err <=> dec.t = Nil))

\* C10: after every mutation of the store, the calls of updateAt that move a
\* centroid past its neighbours among them, Sum(i) is counts[0] + ... +
\* counts[i-1] for every i in 0..len(keys), and the keys are sorted.
C10_IndexConsistent ==
    /\ \A i \in 0..SLen(s) : fenSum(s.fen, i) = SumSeq(SubSeq(s.counts, 1, i))
    /\ \A i \in 1..(SLen(s) - 1) : RLe(s.keys[i], s.keys[i + 1])

\* C11: starting from an empty index, after any sequence of Add(position,
\* delta) calls, those that grow the buffer among them, Sum(p) is the total
\* of the deltas added at positions below p and Get(p) is the total of the
\* deltas added at p.
C11_FenSums ==
    /\ \A p \in 0..(MaxPos + 1) : fenSum(f, p) = SumSeq(SubSeq(added, 1, p))
    /\ \A p \in 0..MaxPos : fenGet(f, p) = added[p + 1]

\* The means successorAndPredecessorItems is asked about: the keys a store
\* can hold and means that are no key of it.
QueryMeans == StoreKeys \cup {R(-1), R(3)}

\* C12: for any mean, a key of the store or not, successorAndPredecessorItems
\* returns the centroid with the smallest key strictly greater than mean and
\* the centroid with the largest key strictly less than mean, and the invalid
\* centroid where there is none.
C12_SuccessorAndPredecessor ==
    \A mean \in QueryMeans :
        LET sp    == successorAndPredecessorItems(s, mean)
            above == {i \in 1..SLen(s) : RGt(s.keys[i], mean)}
            below == {i \in 1..SLen(s) : RLt(s.keys[i], mean)}
        IN  /\ IF above = {} THEN ~isValid(sp[1])
               ELSE /\ isValid(sp[1])
                    /\ RGt(sp[1].mean, mean)
                    /\ \A i \in above : RLe(sp[1].mean, s.keys[i])
            /\ IF below = {} THEN ~isValid(sp[2])
               ELSE /\ isValid(sp[2])
                    /\ RLt(sp[2].mean, mean)
                    /\ \A i \in below : RLe(s.keys[i], sp[2].mean)

\* C13: every Add call runs to completion: under every shuffle outcome and
\* every tie-break choice the Compress calls nested in an Add come to an end
\* (none is still nesting after MaxDepth of them).
C13_AddTerminates ==
    last.op = "Add" => st # "deep"

\* Every ordering of the elements of q.
RECURSIVE Orderings(_)
Orderings(q) ==
    IF q = <<>> THEN {<<>>}
    ELSE UNION { { <<q[i]>> \o p : p \in Orderings(RemoveAt(q, i - 1)) } : i \in 1..Len(q) }

\* C14: the order Compress replays the centroids in is an outcome of shuffle,
\* which is a rearrangement of the centroids extracted, and for two or more
\* centroids each of their n! orderings is an outcome of shuffle.
C14_ShuffleAllOrders ==
    last.op = "Compress" =>
        LET data == Data(last.pre.summary)
        IN  /\ shuffle(data) \subseteq Orderings(data)
            /\ Len(data) >= 2 => Orderings(data) \subseteq shuffle(data)

\* The centroids of a store as a set of <<mean, weight>> pairs.
Pairs(sm) == { <<sm.keys[i], sm.counts[i]>> : i \in 1..SLen(sm) }

\* C15: an Add(value, w) on a non-empty digest never splits its weight: up to
\* the automatic compression, either the whole of w went into one existing
\* centroid, whose weight is then at most the threshold computed for it, or
\* no other centroid changed and the whole of w is the centroid at value (a
\* new one, or folded into the one already there); the number of centroids
\* grew by at most one.
C15_WeightNotSplit ==
    (last.op = "Add" /\ last.count > 0 /\ SLen(last.pre.summary) > 0) =>
        \A r \in addFold(last.pre, last.value, last.count) :
            LET w      == last.count
                value  == last.value
                t1     == [last.pre EXCEPT !.count = @ + w]
                before == Pairs(last.pre.summary)
                after  == Pairs(r.t.summary)
                thr(i) == threshold(t1, computeCentroidQuantile(t1,
                              centroid(t1.summary.keys[i], t1.summary.counts[i], i - 1)))
            IN  /\ ~r.panic
                /\ r.t.count = last.pre.count + w
                /\ SLen(r.t.summary) <= SLen(last.pre.summary) + 1
                /\ \/ \E i \in 1..SLen(last.pre.summary), new \in after :
                          LET old == <<last.pre.summary.keys[i], last.pre.summary.counts[i]>>
                          IN  /\ after = (before \ {old}) \cup {new}
                              /\ new[2] = old[2] + w
                              /\ \/ RLe(R(new[2]), thr(i))
                                 \/ old[1] = value /\ new[1] = value
                   \/ /\ value \notin { p[1] : p \in before }
                      /\ after = before \cup {<<value, w>>}
                      /\ SLen(r.t.summary) = SLen(last.pre.summary) + 1

\* C16: for a non-empty digest built by Add calls and 0 <= q1 <= q2 <= 1,
\* Quantile(q1) <= Quantile(q2).
C16_QuantileMonotone ==
    (hist.adds /\ st = "ok" /\ SLen(t.summary) > 0) =>
        \A q1, q2 \in Quantiles :
            RLe(q1, q2) => RLe(Quantile(t, q1), Quantile(t, q2))

====
